---- MODULE Spec2Model ----
(***************************************************************************)
(* friend-reminder: the contact service (express router over a JSON file)  *)
(* and the React client (contact cache and reminder checker).              *)
(*                                                                         *)
(* A JSON object is a function from the keys it holds to their values, so  *)
(* an absent field is a key outside DOMAIN.  A value of the notes key is   *)
(* tagged with what Array.isArray answers for it.  remindDate is the day   *)
(* number and remindTime the minute of the day that the strings of the     *)
(* source name.  The data file is readable and writable, readFileSync and  *)
(* writeFileSync do not throw, except in the step ServeFails.              *)
(***************************************************************************)
EXTENDS Integers, Sequences, FiniteSets, Bags, TLC

VARIABLES
    file,            \* friendContacts.json: the persisted array of contacts
    serverNow,       \* Date.now() on the server
    req,             \* the request a caller of the API sent last
    res,             \* the response the router gave it
    saved,           \* whether the handler wrote the file for it
    handling,        \* handlers on the server's call stack, with what they loaded
    mounted,         \* whether an App is mounted in the browser
    contacts,        \* App state: the contact cache
    shownReminders,  \* App state: ids whose reminder was shown
    now,             \* the browser's clock, ms
    timerLeft,       \* ms until the reminder checker's interval is due
    timers,          \* the browser's timer table: handles of the active intervals
    interval,        \* the handle the checker's effect holds, 0 before it ran
    notified,        \* toastr.info calls so far, per contact id
    requests,        \* fetch calls the server has not handled yet
    responses,       \* responses the App has not received yet
    lastEvent,       \* what the App did last
    clicks           \* submits and clicks of the user so far

serverVars == <<file, serverNow, req, res, saved, handling>>
clientVars ==
    <<mounted, contacts, shownReminders, now, timerLeft, timers, interval,
      notified, requests, responses, lastEvent, clicks>>
vars == <<serverVars, clientVars>>

\* ---------------------------------------------------------------- bounds
MaxContacts == 2
MaxClock == 2
MaxNow == 15000
MaxClicks == 2
MaxListed == 3

\* ----------------------------------------------------- program constants
DueWindowMs == 60000
PollIntervalMs == 5000

\* ----------------------------------------------------------- JSON values
Arr(items) == [isArray |-> TRUE, items |-> items]
NotArray == [isArray |-> FALSE, items |-> <<>>]
Has(o, k) == k \in DOMAIN o
\* Array.isArray(o[k]); an absent key reads as undefined
IsArrayAt(o, k) == Has(o, k) /\ o[k].isArray
\* { ...a, ...b }
Spread(a, b) == b @@ a

Note1 == [content |-> "New Note", date |-> "2025-09-20", time |-> "08:00"]

Alice ==
    [name |-> "Alice", contactPoint |-> "Email", contactDetail |-> "alice@example.com",
     notes |-> Arr(<<>>), dateCreated |-> "2025-01-01", remindDate |-> 0, remindTime |-> 1]
Eve ==
    [name |-> "Eve", contactPoint |-> "Phone", contactDetail |-> "999",
     dateCreated |-> "2025-01-01", remindDate |-> 0, remindTime |-> 0]
\* Alice's body sent with an id and with notes that are no array
Mallory ==
    Spread(Alice, [id |-> "1", notes |-> NotArray])

CreateBodies == {Alice, Eve, Mallory}
FormBodies == {Eve}

PatchName == [name |-> "Charlie Updated"]
PatchNotes == [notes |-> Arr(<<Note1>>)]
PatchNoNotes == [notes |-> NotArray]
PatchId == [id |-> "2"]

Patches == {PatchName, PatchNotes, PatchNoNotes, PatchId}

MintedIds == {ToString(t) : t \in 1..MaxClock}
AllIds == MintedIds \cup {"1", "2"}
PathIds == AllIds \cup {"invalid-id"}

\* ------------------------------------------------------------ the server
loadContacts(f) ==
    [i \in 1..Len(f) |->
        Spread(f[i], [notes |-> IF IsArrayAt(f[i], "notes") THEN f[i].notes ELSE Arr(<<>>)])]

\* JSON.stringify, read back by JSON.parse in loadContacts: the records are
\* JSON values already, which the two give back as they were
saveContacts(stored) == stored

\* router.get("/")
getContacts(f) ==
    [file |-> f, saved |-> FALSE,
     res |-> [status |-> 200, list |-> loadContacts(f)]]

\* a create that puts the new record first
postContactUnshift(f, body, t) ==
    LET stored == loadContacts(f)
        newContact ==
            Spread(Spread([id |-> ToString(t)], body),
                   [notes |-> IF IsArrayAt(body, "notes") THEN body.notes ELSE Arr(<<>>)])
    IN  [file |-> saveContacts(<<newContact>> \o stored), saved |-> TRUE,
         res |-> [status |-> 201, contact |-> newContact]]

\* a create that stores the notes of the body as they came
postContactRawNotes(f, body, t) ==
    LET stored == loadContacts(f)
        newContact == Spread([id |-> ToString(t)], body)
    IN  [file |-> saveContacts(Append(stored, newContact)), saved |-> TRUE,
         res |-> [status |-> 201, contact |-> newContact]]

\* router.post("/")
postContact(f, body, t) ==
    LET stored == loadContacts(f)
        newContact ==
            Spread(Spread([id |-> ToString(t)], body),
                   [notes |-> IF IsArrayAt(body, "notes") THEN body.notes ELSE Arr(<<>>)])
    IN  [file |-> saveContacts(Append(stored, newContact)), saved |-> TRUE,
         res |-> [status |-> 201, contact |-> newContact]]

findIndex(stored, id) ==
    IF \E i \in 1..Len(stored) : stored[i].id = id
    THEN CHOOSE i \in 1..Len(stored) :
            /\ stored[i].id = id
            /\ \A j \in 1..(i - 1) : stored[j].id # id
    ELSE -1

\* an update that resets the notes when the body has none
putContactResetsNotes(f, id, body) ==
    LET stored == loadContacts(f)
        idx == findIndex(stored, id)
        updated ==
            Spread(Spread(stored[idx], body),
                   [notes |-> IF IsArrayAt(body, "notes") THEN body.notes ELSE Arr(<<>>)])
    IN  IF idx = -1
        THEN [file |-> f, saved |-> FALSE,
              res |-> [status |-> 404, message |-> "Contact not found"]]
        ELSE [file |-> saveContacts([stored EXCEPT ![idx] = updated]), saved |-> TRUE,
              res |-> [status |-> 200, contact |-> updated]]

\* an update that appends the notes of the body to the stored ones
putContactAppendsNotes(f, id, body) ==
    LET stored == loadContacts(f)
        idx == findIndex(stored, id)
        updated ==
            Spread(Spread(stored[idx], body),
                   [notes |-> IF IsArrayAt(body, "notes")
                              THEN Arr(stored[idx].notes.items \o body.notes.items)
                              ELSE stored[idx].notes])
    IN  IF idx = -1
        THEN [file |-> f, saved |-> FALSE,
              res |-> [status |-> 404, message |-> "Contact not found"]]
        ELSE [file |-> saveContacts([stored EXCEPT ![idx] = updated]), saved |-> TRUE,
              res |-> [status |-> 200, contact |-> updated]]

\* an update that creates the record when the id is unknown
putContactUpsert(f, id, body) ==
    LET stored == loadContacts(f)
        idx == findIndex(stored, id)
        fresh ==
            Spread(Spread([id |-> id], body),
                   [notes |-> IF IsArrayAt(body, "notes") THEN body.notes ELSE Arr(<<>>)])
        updated ==
            Spread(Spread(stored[idx], body),
                   [notes |-> IF IsArrayAt(body, "notes") THEN body.notes
                              ELSE stored[idx].notes])
    IN  IF idx = -1
        THEN [file |-> saveContacts(Append(stored, fresh)), saved |-> TRUE,
              res |-> [status |-> 200, contact |-> fresh]]
        ELSE [file |-> saveContacts([stored EXCEPT ![idx] = updated]), saved |-> TRUE,
              res |-> [status |-> 200, contact |-> updated]]

\* router.put("/:id")
putContact(f, id, body) ==
    LET stored == loadContacts(f)
        idx == findIndex(stored, id)
        updated ==
            Spread(Spread(stored[idx], body),
                   [notes |-> IF IsArrayAt(body, "notes") THEN body.notes
                              ELSE stored[idx].notes])
    IN  IF idx = -1
        THEN [file |-> f, saved |-> FALSE,
              res |-> [status |-> 404, message |-> "Contact not found"]]
        ELSE [file |-> saveContacts([stored EXCEPT ![idx] = updated]), saved |-> TRUE,
              res |-> [status |-> 200, contact |-> updated]]

\* a delete that reports an unknown id
deleteContactStrict(f, id) ==
    LET stored == loadContacts(f)
        filtered == SelectSeq(stored, LAMBDA c : c.id # id)
    IN  IF Len(filtered) = Len(stored)
        THEN [file |-> f, saved |-> FALSE,
              res |-> [status |-> 404, message |-> "Contact not found"]]
        ELSE [file |-> saveContacts(filtered), saved |-> TRUE,
              res |-> [status |-> 200, message |-> "Deleted"]]

\* router.delete("/:id")
deleteContact(f, id) ==
    LET stored == loadContacts(f)
        filtered == SelectSeq(stored, LAMBDA c : c.id # id)
    IN  [file |-> saveContacts(filtered), saved |-> TRUE,
         res |-> [status |-> 200, message |-> "Deleted"]]

Handled(r, out) ==
    /\ req' = r
    /\ res' = out.res
    /\ saved' = out.saved
    /\ file' = out.file
    /\ UNCHANGED handling

Get ==
    /\ Handled([method |-> "GET"], getContacts(file))
    /\ UNCHANGED <<serverNow, clientVars>>

Post(body) ==
    /\ Len(file) < MaxContacts
    /\ Handled([method |-> "POST", body |-> body], postContact(file, body, serverNow))
    /\ UNCHANGED <<serverNow, clientVars>>

Put(id, body) ==
    /\ Handled([method |-> "PUT", id |-> id, body |-> body], putContact(file, id, body))
    /\ UNCHANGED <<serverNow, clientVars>>

Delete(id) ==
    /\ Handled([method |-> "DELETE", id |-> id], deleteContact(file, id))
    /\ UNCHANGED <<serverNow, clientVars>>

\* the server's clock moves on between requests
ServerClock ==
    /\ serverNow < MaxClock
    /\ serverNow' = serverNow + 1
    /\ UNCHANGED <<file, req, res, saved, handling, clientVars>>

\* the service alone, before any App is opened
InitServer ==
    /\ file = <<>>
    /\ serverNow = 1
    /\ req = [method |-> "NONE"]
    /\ res = [status |-> 0]
    /\ saved = FALSE
    /\ handling = {}
    /\ mounted = FALSE
    /\ contacts = <<>>
    /\ shownReminders = {}
    /\ now = 0
    /\ timerLeft = 0
    /\ timers = {}
    /\ interval = 0
    /\ notified = [id \in AllIds |-> 0]
    /\ requests = EmptyBag
    /\ responses = EmptyBag
    /\ lastEvent = [type |-> "none"]
    /\ clicks = 0

NextServer ==
    \/ Get
    \/ \E body \in CreateBodies : Post(body)
    \/ \E id \in PathIds, body \in Patches : Put(id, body)
    \/ \E id \in PathIds : Delete(id)
    \/ ServerClock

SpecServer == InitServer /\ [][NextServer]_vars

\* -------------------------------------------------------------- the App
\* stores a session can find on the server, built by the service itself
SeedEmpty == [file |-> <<>>, at |-> 1]
SeedOne == [file |-> postContact(<<>>, Alice, 1).file, at |-> 1]
SeedTwo == [file |-> postContact(SeedOne.file, Eve, 2).file, at |-> 2]
\* the same form posted twice within one millisecond
SeedTwice == [file |-> postContact(SeedOne.file, Alice, 1).file, at |-> 1]
\* a create whose body carries an empty id, after Alice's
BlankId == Spread(Alice, [name |-> "Zed", id |-> ""])
SeedBlankId == [file |-> postContact(SeedOne.file, BlankId, 2).file, at |-> 2]
SeedStores == {SeedEmpty, SeedOne, SeedTwo, SeedTwice, SeedBlankId}

ClockSteps == {PollIntervalMs}
EditTimes == {2}
\* the note form's input: a text the user has not typed before
noteInput == [content |-> ToString(clicks), date |-> "2025-09-21", time |-> "09:00:00"]

\* a JS number: NaN or a finite value
Num(n) == [nan |-> FALSE, ms |-> n]
NaN == [nan |-> TRUE, ms |-> 0]

\* new Date(`${c.remindDate}T${c.remindTime}`).getTime(), local time
remindDateTime(c) ==
    IF Has(c, "remindDate") /\ Has(c, "remindTime")
    THEN Num(c.remindDate * 86400000 + c.remindTime * 60000)
    ELSE NaN

\* remindDateTime.getTime() - now.getTime()
diff(c, t) ==
    IF remindDateTime(c).nan THEN NaN ELSE Num(remindDateTime(c).ms - t)

\* diff >= 0 && diff < 60000
due(c, t) ==
    /\ ~diff(c, t).nan
    /\ diff(c, t).ms >= 0
    /\ diff(c, t).ms < DueWindowMs

\* contact.id is truthy
hasId(c) == Has(c, "id") /\ c.id # ""

\* a tick that does not look at the ids shown before
firingAgain(cache, shown, t) ==
    {i \in 1..Len(cache) : hasId(cache[i]) /\ due(cache[i], t)}

\* the entries of the cache a tick at t shows a toast for
firing(cache, shown, t) ==
    {i \in 1..Len(cache) :
        /\ hasId(cache[i])
        /\ due(cache[i], t)
        /\ cache[i].id \notin shown}

\* data.map(c => ({...c, notes: Array.isArray(c.notes) ? c.notes : []}))
normalized(data) ==
    [i \in 1..Len(data) |->
        Spread(data[i],
               [notes |-> IF IsArrayAt(data[i], "notes") THEN data[i].notes ELSE Arr(<<>>)])]

handleAddContact(prev, contact) == Append(prev, contact)

\* c.id === contact.id, an absent id being undefined
sameId(c, d) ==
    IF Has(c, "id") /\ Has(d, "id") THEN c.id = d.id
    ELSE ~Has(c, "id") /\ ~Has(d, "id")

\* a replace that adds the contact when no entry has its id
handleUpdateOrAdd(prev, contact) ==
    IF \E i \in 1..Len(prev) : sameId(prev[i], contact)
    THEN [i \in 1..Len(prev) |-> IF sameId(prev[i], contact) THEN contact ELSE prev[i]]
    ELSE Append(prev, contact)

handleUpdateContact(prev, contact) ==
    [i \in 1..Len(prev) |-> IF sameId(prev[i], contact) THEN contact ELSE prev[i]]

\* a filter that drops the first entry whatever its id
withoutFirst(prev, id) == IF prev = <<>> THEN <<>> ELSE Tail(prev)

\* prev.filter(c => c.id !== id)
withoutId(prev, id) ==
    SelectSeq(prev, LAMBDA c : ~(Has(c, "id") /\ c.id = id))

One(m) == SetToBag({m})
Ok(r) == r.status >= 200 /\ r.status <= 299

\* setInterval's return value: a handle no active timer has
setInterval(active) ==
    CHOOSE h \in 1..(Cardinality(active) + 1) :
        h \notin active /\ \A k \in 1..(h - 1) : k \in active

\* clearInterval(h)
clearInterval(active, h) == active \ {h}

\* an effect that sets the new interval without clearing the one it holds
RerunKeepsOld ==
    /\ timerLeft' = PollIntervalMs
    /\ timers' = timers \cup {setInterval(timers)}
    /\ interval' = setInterval(timers)

\* a state update of contacts or shownReminders re-runs the checker's effect:
\* the cleanup's clearInterval(interval), then setInterval(..., 5000)
Rerun ==
    /\ timerLeft' = PollIntervalMs
    /\ timers' = clearInterval(timers, interval) \cup
                    {setInterval(clearInterval(timers, interval))}
    /\ interval' = setInterval(clearInterval(timers, interval))

\* a click or submit that calls fetch, within a budget of user actions
SendWithin(m, type, budget) ==
    /\ mounted
    /\ clicks < budget
    /\ clicks' = clicks + 1
    /\ requests' = requests (+) One(m)
    /\ lastEvent' = [type |-> type]
    /\ UNCHANGED <<serverVars, mounted, contacts, shownReminders, now, timerLeft,
                   timers, interval, notified, responses>>

Send(m, type) == SendWithin(m, type, MaxClicks)

\* the form's submit in create mode
FormCreate(body) ==
    /\ Send([kind |-> "create", method |-> "POST", body |-> body], "submit")

\* the form's submit in edit mode, for the cached contact at i
FormEdit(i, t) ==
    /\ hasId(contacts[i])
    /\ Send([kind |-> "edit", method |-> "PUT", id |-> contacts[i].id,
             body |-> Spread(contacts[i], [remindTime |-> t])], "submit")

\* handleDeleteContact, up to its fetch
DeleteClicked(i) ==
    /\ hasId(contacts[i])
    /\ Send([kind |-> "delete", method |-> "DELETE", id |-> contacts[i].id], "delete")

\* handleNewNote, up to its fetch
NoteSubmitted(i) ==
    /\ hasId(contacts[i])
    /\ Send([kind |-> "note", method |-> "PUT", id |-> contacts[i].id,
             body |-> Spread(contacts[i],
                             [notes |-> Arr(Append(contacts[i].notes.items, noteInput))])],
            "note")

\* what the router answers to request m
Route(m) ==
    CASE m.method = "GET" -> getContacts(file)
      [] m.method = "POST" -> postContact(file, m.body, serverNow)
      [] m.method = "PUT" -> putContact(file, m.id, m.body)
      [] m.method = "DELETE" -> deleteContact(file, m.id)

\* the server handles a request of the App; its answer travels in responses
Serve(m) ==
    /\ requests[m] > 0
    /\ file' = Route(m).file
    /\ requests' = requests (-) One(m)
    /\ responses' = responses (+) One([kind |-> m.kind, to |-> m, res |-> Route(m).res])
    /\ UNCHANGED <<serverNow, req, res, saved, handling, mounted, contacts,
                   shownReminders, now, timerLeft, timers, interval, notified,
                   lastEvent, clicks>>

\* the App's continuation after await fetch(...), by the call that sent it
Receive(r) ==
    /\ mounted
    /\ responses[r] > 0
    /\ responses' = responses (-) One(r)
    /\ lastEvent' = [type |-> r.kind]
    /\ IF Ok(r.res)
       THEN /\ contacts' =
                CASE r.kind = "fetch" -> normalized(r.res.list)
                  [] r.kind = "create" -> handleAddContact(contacts, r.res.contact)
                  [] r.kind = "edit" -> handleUpdateContact(contacts, r.res.contact)
                  [] r.kind = "note" -> handleUpdateContact(contacts, r.res.contact)
                  [] r.kind = "delete" -> withoutId(contacts, r.to.id)
            /\ Rerun
       ELSE UNCHANGED <<contacts, timerLeft, timers, interval>>
    /\ UNCHANGED <<serverVars, mounted, shownReminders, now, notified, requests,
                   clicks>>

\* fetch rejects: the request or its response is lost, the catch logs it
FetchRejected ==
    /\ mounted
    /\ \/ \E m \in BagToSet(requests) :
            requests' = requests (-) One(m) /\ UNCHANGED responses
       \/ \E r \in BagToSet(responses) :
            responses' = responses (-) One(r) /\ UNCHANGED requests
    /\ lastEvent' = [type |-> "rejected"]
    /\ UNCHANGED <<serverVars, mounted, contacts, shownReminders, now, timerLeft,
                   timers, interval, notified, clicks>>

\* a callback that sets shownReminders to the ids it has just shown
TickForgets ==
    /\ interval \in timers
    /\ timerLeft = 0
    /\ LET fired == firing(contacts, shownReminders, now)
           ids == {contacts[i].id : i \in fired}
       IN  /\ notified' =
                [id \in DOMAIN notified |->
                    notified[id] + Cardinality({i \in fired : contacts[i].id = id})]
           /\ shownReminders' = ids
           /\ lastEvent' =
                [type |-> "tick",
                 toasts |-> SelectSeq([i \in 1..Len(contacts) |-> i],
                                      LAMBDA i : i \in fired)]
           /\ Rerun
    /\ UNCHANGED <<serverVars, mounted, contacts, now, requests, responses, clicks>>

\* the interval's callback
Tick ==
    /\ interval \in timers
    /\ timerLeft = 0
    /\ LET fired == firing(contacts, shownReminders, now)
           ids == {contacts[i].id : i \in fired}
       IN  /\ notified' =
                [id \in DOMAIN notified |->
                    notified[id] + Cardinality({i \in fired : contacts[i].id = id})]
           /\ shownReminders' = shownReminders \cup ids
           /\ lastEvent' =
                [type |-> "tick",
                 toasts |-> SelectSeq([i \in 1..Len(contacts) |-> i],
                                      LAMBDA i : i \in fired)]
           /\ IF fired # {}
              THEN Rerun
              ELSE timerLeft' = PollIntervalMs /\ UNCHANGED <<timers, interval>>
    /\ UNCHANGED <<serverVars, mounted, contacts, now, requests, responses, clicks>>

\* time passes in the browser
AdvanceClock(d) ==
    /\ now + d <= MaxNow
    /\ now' = now + d
    /\ timerLeft' = IF timerLeft > d THEN timerLeft - d ELSE 0
    /\ UNCHANGED <<timers, interval>>
    /\ lastEvent' = [type |-> "clock"]
    /\ UNCHANGED <<serverVars, mounted, contacts, shownReminders, notified,
                   requests, responses, clicks>>

\* the App is opened: first render, then both effects run
Init ==
    /\ \E seed \in SeedStores : file = seed.file /\ serverNow = seed.at
    /\ req = [method |-> "NONE"]
    /\ res = [status |-> 0]
    /\ saved = FALSE
    /\ handling = {}
    /\ mounted = TRUE
    /\ contacts = <<>>
    /\ shownReminders = {}
    /\ now = 0
    /\ timerLeft = PollIntervalMs
    /\ timers = {setInterval({})}
    /\ interval = setInterval({})
    /\ notified = [id \in AllIds |-> 0]
    /\ requests = One([kind |-> "fetch", method |-> "GET"])
    /\ responses = EmptyBag
    /\ lastEvent = [type |-> "mount"]
    /\ clicks = 0

Next ==
    \/ \E m \in BagToSet(requests) : Serve(m)
    \/ \E r \in BagToSet(responses) : Receive(r)
    \/ FetchRejected
    \/ \E body \in FormBodies : FormCreate(body)
    \/ \E i \in 1..Len(contacts), t \in EditTimes : FormEdit(i, t)
    \/ \E i \in 1..Len(contacts) : DeleteClicked(i)
    \/ \E i \in 1..Len(contacts) : NoteSubmitted(i)
    \/ Tick
    \/ \E d \in ClockSteps : AdvanceClock(d)
    \/ ServerClock

Spec == Init /\ [][Next]_vars

\* the handler's catch: reading the data file throws, nothing is written
failed(m) ==
    [status |-> 500,
     message |-> CASE m.method = "GET" -> "Failed to load contacts"
                   [] m.method = "POST" -> "Failed to save contact"
                   [] m.method = "PUT" -> "Failed to update contact"
                   [] m.method = "DELETE" -> "Failed to delete contact"]

\* the server handles a request of the App while the data file is unreadable
ServeFails(m) ==
    /\ requests[m] > 0
    /\ requests' = requests (-) One(m)
    /\ responses' = responses (+) One([kind |-> m.kind, to |-> m, res |-> failed(m)])
    /\ UNCHANGED <<serverVars, mounted, contacts, shownReminders, now, timerLeft,
                   timers, interval, notified, lastEvent, clicks>>

\* the App is closed: React runs the cleanup of the checker's effect
Unmount ==
    /\ mounted
    /\ mounted' = FALSE
    /\ timers' = clearInterval(timers, interval)
    /\ lastEvent' = [type |-> "unmount"]
    /\ UNCHANGED <<serverVars, contacts, shownReminders, now, timerLeft, interval,
                   notified, requests, responses, clicks>>

\* the reminder checker in a session in which the user edits reminder times
\* and deletes contacts, until the App is closed
NextScheduler ==
    \/ \E m \in BagToSet(requests) : Serve(m)
    \/ \E r \in BagToSet(responses) : Receive(r)
    \/ \E i \in 1..Len(contacts), t \in EditTimes : FormEdit(i, t)
    \/ \E i \in 1..Len(contacts) : DeleteClicked(i)
    \/ Tick
    \/ \E d \in ClockSteps : AdvanceClock(d)
    \/ Unmount

SpecScheduler == Init /\ [][NextScheduler]_vars

\* ----------------------------------------------- the due window, in time
\* the session is followed until the poll after the end of a due window
Horizon == DueWindowMs + PollIntervalMs
\* polls that fit in a due window: the delete clicks a session is given
Restarts == DueWindowMs \div PollIntervalMs
HalfPoll == PollIntervalMs \div 2

\* time passes; a callback that is due runs before more time passes
Elapse(d) ==
    /\ now + d <= Horizon
    /\ interval \in timers => d <= timerLeft
    /\ now' = now + d
    /\ timerLeft' = IF timerLeft > d THEN timerLeft - d ELSE 0
    /\ lastEvent' = [type |-> "clock"]
    /\ UNCHANGED <<serverVars, mounted, contacts, shownReminders, timers, interval,
                   notified, requests, responses, clicks>>

\* handleDeleteContact up to its fetch, the button being clicked again and
\* again while the contact is shown
DeleteClickedAgain(i) ==
    /\ hasId(contacts[i])
    /\ SendWithin([kind |-> "delete", method |-> "DELETE", id |-> contacts[i].id],
                  "delete", Restarts)

\* the App when its first load has arrived, at time 0
InitWindow ==
    /\ \E seed \in SeedStores : file = seed.file /\ serverNow = seed.at
    /\ req = [method |-> "NONE"]
    /\ res = [status |-> 0]
    /\ saved = FALSE
    /\ handling = {}
    /\ mounted = TRUE
    /\ contacts = normalized(getContacts(file).res.list)
    /\ shownReminders = {}
    /\ now = 0
    /\ timerLeft = PollIntervalMs
    /\ timers = {setInterval({})}
    /\ interval = setInterval({})
    /\ notified = [id \in AllIds |-> 0]
    /\ requests = EmptyBag
    /\ responses = EmptyBag
    /\ lastEvent = [type |-> "fetch"]
    /\ clicks = 0

NextWindow ==
    \/ \E m \in BagToSet(requests) : Serve(m)
    \/ \E r \in BagToSet(responses) : Receive(r)
    \/ \E i \in 1..Len(contacts) : DeleteClickedAgain(i)
    \/ Tick
    \/ Elapse(HalfPoll)

SpecWindow == InitWindow /\ [][NextWindow]_vars

\* a session of one App in which every request is handled and answered:
\* the first load, note-adds and deletes, in any order of handling and arrival
NextSync ==
    \/ \E m \in BagToSet(requests) : Serve(m)
    \/ \E r \in BagToSet(responses) : Receive(r)
    \/ \E i \in 1..Len(contacts) : DeleteClicked(i)
    \/ \E i \in 1..Len(contacts) : NoteSubmitted(i)

SpecSync == Init /\ [][NextSync]_vars

\* ------------------------------------------- the router under concurrency
\* requests that clients of the API have issued at the same time
Concurrent ==
    {[kind |-> "api", method |-> "GET"],
     [kind |-> "api", method |-> "POST", body |-> Eve],
     [kind |-> "api", method |-> "PUT", id |-> "1", body |-> PatchName],
     [kind |-> "api", method |-> "PUT", id |-> "1", body |-> PatchNotes],
     [kind |-> "api", method |-> "DELETE", id |-> "1"],
     [kind |-> "api", method |-> "DELETE", id |-> "2"]}

\* what a handler answers and writes for request m once it has loaded stored
handle(stored, m) ==
    CASE m.method = "GET" -> getContacts(stored)
      [] m.method = "POST" -> postContact(stored, m.body, serverNow)
      [] m.method = "PUT" -> putContact(stored, m.id, m.body)
      [] m.method = "DELETE" -> deleteContact(stored, m.id)

\* a handler that is called while another is between its load and its save
LoadInterleaved(m) ==
    /\ requests[m] > 0
    /\ requests' = requests (-) One(m)
    /\ handling' = handling \cup {[m |-> m, loaded |-> loadContacts(file)]}
    /\ UNCHANGED <<file, serverNow, req, res, saved, mounted, contacts,
                   shownReminders, now, timerLeft, timers, interval, notified,
                   responses, lastEvent, clicks>>

\* express calls the handler of m, which reads the file with readFileSync;
\* node calls a handler only when no other is on the call stack
Load(m) ==
    /\ handling = {}
    /\ requests[m] > 0
    /\ requests' = requests (-) One(m)
    /\ handling' = handling \cup {[m |-> m, loaded |-> loadContacts(file)]}
    /\ UNCHANGED <<file, serverNow, req, res, saved, mounted, contacts,
                   shownReminders, now, timerLeft, timers, interval, notified,
                   responses, lastEvent, clicks>>

\* the handler goes on from what it loaded: it changes the array, writes
\* the file with writeFileSync unless it answers 404, and answers
Save(h) ==
    /\ h \in handling
    /\ handling' = handling \ {h}
    /\ file' = IF handle(h.loaded, h.m).saved THEN handle(h.loaded, h.m).file ELSE file
    /\ responses' =
            responses (+) One([kind |-> h.m.kind, to |-> h.m,
                               res |-> handle(h.loaded, h.m).res])
    /\ UNCHANGED <<serverNow, req, res, saved, mounted, contacts, shownReminders,
                   now, timerLeft, timers, interval, notified, requests,
                   lastEvent, clicks>>

\* the service with up to MaxClicks requests issued at once
InitRouter ==
    /\ \E seed \in SeedStores : file = seed.file /\ serverNow = seed.at
    /\ req = [method |-> "NONE"]
    /\ res = [status |-> 0]
    /\ saved = FALSE
    /\ handling = {}
    /\ mounted = FALSE
    /\ contacts = <<>>
    /\ shownReminders = {}
    /\ now = 0
    /\ timerLeft = 0
    /\ timers = {}
    /\ interval = 0
    /\ notified = [id \in AllIds |-> 0]
    /\ \E batch \in SUBSET Concurrent :
            /\ batch # {}
            /\ Cardinality(batch) <= MaxClicks
            /\ requests = SetToBag(batch)
    /\ responses = EmptyBag
    /\ lastEvent = [type |-> "none"]
    /\ clicks = 0

NextRouter ==
    \/ \E m \in BagToSet(requests) : Load(m)
    \/ \E h \in handling : Save(h)
    \/ ServerClock

SpecRouter == InitRouter /\ [][NextRouter]_vars

\* ------------------------------------------------------------ the listing
\* a create body without reminder fields, and one with Alice's reminder time
Partial == [name |-> "X"]
Bob == Spread(Alice, [name |-> "Bob", contactPoint |-> "Phone", contactDetail |-> "123"])
ListBodies == {Alice, Eve, Partial, Bob}

RECURSIVE storeOf(_, _, _)
\* the file after the bodies were posted one per millisecond from time t on
storeOf(f, bodies, t) ==
    IF bodies = <<>> THEN f
    ELSE storeOf(postContact(f, Head(bodies), t).file, Tail(bodies), t + 1)

\* the comparator of the render's sort; sort reads a NaN result as +0
compare(a, b) ==
    IF remindDateTime(a).nan \/ remindDateTime(b).nan THEN 0
    ELSE remindDateTime(a).ms - remindDateTime(b).ms

\* the comparator is a consistent comparison function for these values
consistent(list) ==
    \A i, j, k \in 1..Len(list) :
        (compare(list[i], list[j]) = 0 /\ compare(list[j], list[k]) = 0) =>
            compare(list[i], list[k]) = 0

permutations(n) ==
    {p \in [1..n -> 1..n] : \A i, j \in 1..n : p[i] = p[j] => i = j}

\* what Array.prototype.sort can leave in the array: the stable ascending
\* order when the comparator is consistent, an implementation-defined order
\* of the same elements otherwise
sort(list) ==
    LET n == Len(list)
        stable == {p \in permutations(n) :
                      \A i, j \in 1..n :
                          i < j =>
                              \/ compare(list[p[i]], list[p[j]]) < 0
                              \/ /\ compare(list[p[i]], list[p[j]]) = 0
                                 /\ p[i] < p[j]}
        orders == IF consistent(list) THEN stable ELSE permutations(n)
    IN  {[i \in 1..n |-> list[p[i]]] : p \in orders}

\* the render of the contact list: [...contacts].sort(...).map(...)
Render ==
    /\ mounted
    /\ lastEvent.type # "render"
    /\ \E view \in sort(contacts) :
            lastEvent' = [type |-> "render", view |-> view]
    /\ UNCHANGED <<serverVars, mounted, contacts, shownReminders, now, timerLeft,
                   timers, interval, notified, requests, responses, clicks>>

\* the App after its first load of a store that creates have filled
InitListing ==
    /\ \E n \in 0..MaxListed : \E bodies \in [1..n -> ListBodies] :
            /\ file = storeOf(<<>>, bodies, 1)
            /\ serverNow = n + 1
    /\ req = [method |-> "NONE"]
    /\ res = [status |-> 0]
    /\ saved = FALSE
    /\ handling = {}
    /\ mounted = TRUE
    /\ contacts = normalized(getContacts(file).res.list)
    /\ shownReminders = {}
    /\ now = 0
    /\ timerLeft = PollIntervalMs
    /\ timers = {setInterval({})}
    /\ interval = setInterval({})
    /\ notified = [id \in AllIds |-> 0]
    /\ requests = EmptyBag
    /\ responses = EmptyBag
    /\ lastEvent = [type |-> "fetch"]
    /\ clicks = 0

NextListing == Render

SpecListing == InitListing /\ [][NextListing]_vars

\* the contact cache and the service behind it: a session in which the user
\* deletes contacts and adds notes, over storage that can fail
NextCache ==
    \/ \E m \in BagToSet(requests) : Serve(m)
    \/ \E m \in BagToSet(requests) : ServeFails(m)
    \/ \E r \in BagToSet(responses) : Receive(r)
    \/ FetchRejected
    \/ \E i \in 1..Len(contacts) : DeleteClicked(i)
    \/ \E i \in 1..Len(contacts) : NoteSubmitted(i)

SpecCache == Init /\ [][NextCache]_vars

\* ------------------------------------------------- claims on the service
\* GET /: what listContacts answers for the store as it is
Listing == getContacts(file).res.list
HasId(list, id) == \E i \in 1..Len(list) : list[i].id = id
RECURSIVE Without(_, _)
\* the records of list whose id is not id, in the order of list
Without(list, id) ==
    IF list = <<>> THEN <<>>
    ELSE IF Head(list).id = id THEN Without(Tail(list), id)
         ELSE <<Head(list)>> \o Without(Tail(list), id)

\* C3: no two stored contacts share an id, and a create whose input has no
\* id returns a non-empty id that no record stored before it has.
C3_StoredIdsUnique ==
    /\ \A i, j \in 1..Len(file) : i # j => file[i].id # file[j].id
    /\ (req.method = "POST" /\ ~Has(req.body, "id")) =>
            /\ res.contact.id # ""
            /\ \A i \in 1..(Len(file) - 1) : file[i].id # res.contact.id

\* C4: an update never changes the id of the record it updates: the stored
\* and the returned record keep the id of the request path, whatever the patch.
C4_UpdateKeepsId ==
    [][\A id \in PathIds, body \in Patches :
          (Put(id, body) /\ HasId(file, id)) =>
              /\ file'[findIndex(file, id)].id = id
              /\ res'.contact.id = id]_vars

\* C5: an update of an existing id with a patch of one field other than
\* notes changes that field of that record and nothing else in the store.
C5_UpdateMergeLaw ==
    [][\A id \in PathIds, body \in Patches :
          (/\ Put(id, body)
           /\ HasId(file, id)
           /\ Cardinality(DOMAIN body) = 1
           /\ ~Has(body, "notes")) =>
              LET idx == findIndex(file, id) IN
              /\ Len(file') = Len(file)
              /\ \A i \in 1..Len(file) : i # idx => file'[i] = file[i]
              /\ DOMAIN file'[idx] = DOMAIN file[idx] \cup DOMAIN body
              /\ \A k \in DOMAIN file[idx] \ DOMAIN body :
                    file'[idx][k] = file[idx][k]
              /\ \A k \in DOMAIN body : file'[idx][k] = body[k]]_vars

\* C5 witness: a one-field patch was applied to a record that holds a note
C5_Witness ==
    /\ req.method = "PUT"
    /\ req.body = PatchName
    /\ res.status = 200
    /\ res.contact.notes = Arr(<<Note1>>)
    /\ Len(file) = 2

\* C6: an update of an id that no stored record has answers 404, leaves
\* the file as it was and writes nothing.
C6_UpdateUnknownId ==
    [][\A id \in PathIds, body \in Patches :
          (Put(id, body) /\ ~HasId(file, id)) =>
              /\ res'.status = 404
              /\ file' = file
              /\ saved' = FALSE]_vars

\* C6 witness: a 404 was given while the store holds records
C6_Witness ==
    /\ req.method = "PUT"
    /\ res.status = 404
    /\ Len(file) > 0
    /\ ~HasId(file, req.id)

\* C7: a delete always answers 200, leaves no record with the id, keeps
\* every other record as it was, and changes nothing when no record has the
\* id (a second delete, or a delete of an id that never was there).
C7_DeleteIdempotent ==
    [][\A id \in PathIds :
          Delete(id) =>
              /\ res'.status = 200
              /\ ~HasId(file', id)
              /\ file' = Without(file, id)
              /\ ~HasId(file, id) => file' = file]_vars

\* C7 witness: a delete of an id that no record has, other records staying
C7_Witness ==
    /\ req.method = "DELETE"
    /\ res.status = 200
    /\ req.id = "invalid-id"
    /\ Len(file) = 2

\* C8: the listing is in creation order: a create appends the record it
\* returns, an update keeps the record at its place, a delete keeps the
\* order of the records that stay, and a listing changes nothing.
C8_ListingInCreationOrder ==
    [][/\ \A body \in CreateBodies :
            Post(body) => Listing' = Append(Listing, res'.contact)
       /\ \A id \in PathIds, body \in Patches :
            (Put(id, body) /\ res'.status = 200) =>
                /\ Len(Listing') = Len(Listing)
                /\ \E i \in 1..Len(Listing) :
                      /\ Listing[i].id = id
                      /\ Listing'[i] = res'.contact
                      /\ \A j \in 1..Len(Listing) : j # i => Listing'[j] = Listing[j]
       /\ \A id \in PathIds :
            Delete(id) => Listing' = Without(Listing, id)
       /\ Get => (res'.list = Listing /\ Listing' = Listing)]_vars

\* C8 witness: a listing of two contacts, the one created first coming first
C8_Witness ==
    /\ req.method = "GET"
    /\ Len(res.list) = 2
    /\ res.list[1].name = "Alice"
    /\ res.list[2].name = "Eve"
    /\ res.list[1].id = "1"
    /\ res.list[2].id = "2"

\* C9 helper: every record of list has an array as notes
NotesAreArrays(list) == \A i \in 1..Len(list) : IsArrayAt(list[i], "notes")

\* C9: notes is an array in every record the file holds, in every record a
\* create, an update or a listing returns, and in every record the App's
\* first load makes of a listing; a create whose body has no array as notes
\* returns the empty array.
C9_NotesAlwaysArray ==
    /\ NotesAreArrays(file)
    /\ (req.method \in {"POST", "PUT"} /\ Ok(res)) => NotesAreArrays(<<res.contact>>)
    /\ req.method = "GET" =>
            /\ NotesAreArrays(res.list)
            /\ NotesAreArrays(normalized(res.list))
            /\ Len(normalized(res.list)) = Len(file)
    /\ (req.method = "POST" /\ ~IsArrayAt(req.body, "notes")) =>
            /\ res.contact.notes = Arr(<<>>)
            /\ file[Len(file)].notes = Arr(<<>>)

\* C9 witness: a create whose notes were no array, stored with the empty array
C9_Witness ==
    /\ req.method = "POST"
    /\ Has(req.body, "notes")
    /\ ~req.body.notes.isArray
    /\ res.status = 201
    /\ Len(file) = 2
    /\ file[1].notes = Arr(<<Note1>>)

\* C10: an update replaces the notes by the notes of the patch when these
\* are an array, and keeps the stored notes otherwise.
C10_UpdateReplacesNotes ==
    [][\A id \in PathIds, body \in Patches :
          (Put(id, body) /\ HasId(file, id)) =>
              LET idx == findIndex(file, id) IN
              IF IsArrayAt(body, "notes")
              THEN /\ file'[idx].notes = body.notes
                   /\ res'.contact.notes = body.notes
              ELSE /\ file'[idx].notes = file[idx].notes
                   /\ res'.contact.notes = file[idx].notes]_vars

\* C10 witness: POST, then PUT {notes: [note]} stores exactly that note
C10_Witness ==
    /\ req.method = "PUT"
    /\ req.body = PatchNotes
    /\ res.status = 200
    /\ \E i \in 1..Len(file) : file[i].id = req.id /\ file[i].notes = Arr(<<Note1>>)

\* ----------------------------------------------------- claims on the App
\* C1: in a session no contact id gets more than one notification, and an
\* id that was shown stays shown.
C1_OneToastPerId ==
    [][/\ \A id \in DOMAIN notified : notified'[id] <= 1
       /\ shownReminders \subseteq shownReminders']_vars

\* C2: a tick whose time is at the reminder instant or less than 60 s after
\* it shows exactly one toast for a contact not shown yet, and none for a
\* contact shown before.
C2_TickFiresAfterInstant ==
    [][Tick =>
        \A i \in 1..Len(contacts) :
            LET c == contacts[i]
                toasts == lastEvent'.toasts
                shownFor == Cardinality({k \in 1..Len(toasts) : toasts[k] = i})
            IN  (/\ hasId(c)
                 /\ ~remindDateTime(c).nan
                 /\ now - remindDateTime(c).ms >= 0
                 /\ now - remindDateTime(c).ms < DueWindowMs) =>
                    IF c.id \in shownReminders THEN shownFor = 0 ELSE shownFor = 1]_vars

\* the notes stored for the first record with id, as findIndex finds it
storedNotes(f, id) == f[findIndex(f, id)].notes.items
\* the note a note-add request carries: the last of the notes it sends
newNote(m) == m.body.notes.items[Len(m.body.notes.items)]

\* C11: when the service handles a note-add of the App for a stored
\* contact, the notes stored for it afterwards are the notes stored before,
\* unchanged and in their order, with the new note at the end; also when the
\* note-add was submitted before the answer to an earlier one came back.
C11_NotesAppendOnly ==
    [][\A m \in BagToSet(requests) :
          (Serve(m) /\ m.kind = "note" /\ HasId(file, m.id)) =>
              storedNotes(file', m.id) = Append(storedNotes(file, m.id), newNote(m))]_vars

\* ---------------------------------------------------- claims on the cache
\* the cache holds an entry with this id
Cached(cache, id) == \E i \in 1..Len(cache) : Has(cache[i], "id") /\ cache[i].id = id

\* C12: the cache drops an entry only when the answer to a delete of its id
\* arrives and reports success; then it drops the entries with that id and no
\* other.  Clicking delete, a rejected fetch and a delete answered with a
\* failure leave the cache exactly as it was.
C12_RemoveWriteThrough ==
    [][/\ \A i \in 1..Len(contacts) : DeleteClicked(i) => contacts' = contacts
       /\ FetchRejected => contacts' = contacts
       /\ \A r \in BagToSet(responses) :
            (Receive(r) /\ r.kind = "delete") =>
                IF r.res.status = 200
                THEN contacts' = Without(contacts, r.to.id)
                ELSE contacts' = contacts
       /\ \A id \in AllIds :
            (Cached(contacts, id) /\ ~Cached(contacts', id)) =>
                \E r \in BagToSet(responses) :
                    /\ Receive(r)
                    /\ r.kind = "delete"
                    /\ r.to.id = id
                    /\ r.res.status = 200]_vars

\* C12 witness: the only delete of the session was answered with a failure
\* and both contacts are still cached and stored
C12_Witness ==
    /\ lastEvent.type = "delete"
    /\ clicks = 1
    /\ requests = EmptyBag
    /\ responses = EmptyBag
    /\ Len(contacts) = 2
    /\ Len(file) = 2

\* ------------------------------------------------ claims on the scheduler
\* C13: at most one interval is active; while the App is mounted it is the
\* one the checker's effect holds, so every re-run of the effect has cleared
\* the interval before it; a tick is the callback of that interval; once the
\* App is closed no interval is active and no tick runs.
C13_SingleTimer ==
    [][/\ Cardinality(timers') <= 1
       /\ mounted' => timers' = {interval'}
       /\ ~mounted' => timers' = {}
       /\ Tick => (mounted /\ timers = {interval})
       /\ ~mounted => ~Tick]_vars

\* C13 witness: the App was closed after a tick had shown a reminder and
\* while the interval was due again
C13_Witness ==
    /\ lastEvent.type = "unmount"
    /\ ~mounted
    /\ timers = {}
    /\ timerLeft = 0
    /\ shownReminders # {}

\* ------------------------------------------------- claims on the listing
\* C14: the rendered listing holds exactly the cached contacts, shows a
\* contact with the earlier reminder timestamp before one with the later
\* whatever their places in the cache, and leaves the cache as it was.
C14_ListingByTimestamp ==
    [][Render =>
        LET view == lastEvent'.view IN
        /\ Len(view) = Len(contacts)
        /\ \E p \in permutations(Len(contacts)) :
                \A i \in 1..Len(view) : view[i] = contacts[p[i]]
        /\ \A i, j \in 1..Len(view) :
                (/\ ~remindDateTime(view[i]).nan
                 /\ ~remindDateTime(view[j]).nan
                 /\ remindDateTime(view[i]).ms < remindDateTime(view[j]).ms) => i < j
        /\ contacts' = contacts]_vars

\* the entries of the cache the tick just done has shown a toast for
toasted == {lastEvent.toasts[k] : k \in 1..Len(lastEvent.toasts)}

\* C15: a tick shows a toast for a cached contact exactly when the contact
\* has a non-empty id, the id is not in shownReminders at the tick, and
\* 0 <= remindDateTime - now < 60000; the ids of the contacts it showed are
\* in shownReminders afterwards, and nothing else changes there, so a contact
\* without id, one shown before and one that is not due stay as they were.
C15_TickFiresIffDue ==
    [][Tick =>
        /\ \A i \in 1..Len(contacts) :
              LET c == contacts[i]
                  delta == remindDateTime(c).ms - now
              IN  (i \in toasted') <=>
                      /\ Has(c, "id")
                      /\ c.id # ""
                      /\ c.id \notin shownReminders
                      /\ ~remindDateTime(c).nan
                      /\ 0 <= delta
                      /\ delta < 60000
        /\ shownReminders' = shownReminders \cup {contacts[i].id : i \in toasted'}]_vars

\* C15 witness: a tick over Alice, due and shown, and a due contact whose
\* id is empty, not shown
C15_Witness ==
    /\ lastEvent.type = "tick"
    /\ lastEvent.toasts = <<1>>
    /\ Len(contacts) = 2
    /\ contacts[2].id = ""
    /\ due(contacts[2], now)
    /\ shownReminders = {"1"}

\* ---------------------------------------------------- claims on the router
\* C16: at most one handler is between its load and its save, and what a
\* handler writes and answers is what the request gives when applied as a
\* whole to the file as it is when the handler writes; so the file after
\* requests issued at once is the file of applying them one after the other
\* in the order the handlers ran.
C16_OneRequestAtATime ==
    [][/\ Cardinality(handling') <= 1
       /\ \A h \in handling :
            Save(h) =>
                /\ h.loaded = loadContacts(file)
                /\ file' = Route(h.m).file
                /\ responses' = responses (+)
                        One([kind |-> h.m.kind, to |-> h.m, res |-> Route(h.m).res])]_vars

\* C16 witness: an update and a delete of one contact, issued at once, were
\* both handled: the update first, so it found the contact
C16_Witness ==
    /\ requests = EmptyBag
    /\ handling = {}
    /\ \E r \in BagToSet(responses) : r.to.method = "PUT" /\ r.res.status = 200
    /\ \E r \in BagToSet(responses) : r.to.method = "DELETE" /\ r.to.id = "1"
    /\ ~HasId(file, "1")

\* C17: a tick leaves the cache, the file and the requests and responses
\* under way as they are; it takes no id out of shownReminders, and the ids
\* it puts in are exactly the ids it has shown a toast for.
C17_TickReadOnly ==
    [][Tick =>
        /\ contacts' = contacts
        /\ file' = file
        /\ requests' = requests
        /\ responses' = responses
        /\ shownReminders \subseteq shownReminders'
        /\ shownReminders' \ shownReminders =
                {id \in DOMAIN notified : notified'[id] > notified[id]}]_vars

\* C17 witness: a tick has shown Alice's reminder and not Eve's; both are
\* cached and stored as before
C17_Witness ==
    /\ lastEvent.type = "tick"
    /\ lastEvent.toasts = <<1>>
    /\ notified["1"] = 1
    /\ shownReminders = {"1"}
    /\ Len(contacts) = 2
    /\ contacts[2].name = "Eve"
    /\ contacts = normalized(file)

\* C18: when the answer to an update arrives with success, every cache
\* entry with the id of the returned contact becomes that contact at its
\* place, every other entry and the length stay, and a cache without such an
\* entry stays exactly as it was.
C18_ReplaceInPlace ==
    [][\A r \in BagToSet(responses) :
          (Receive(r) /\ r.kind \in {"note", "edit"} /\ r.res.status = 200) =>
              LET new == r.res.contact IN
              /\ Len(contacts') = Len(contacts)
              /\ \A i \in 1..Len(contacts) :
                    IF Has(contacts[i], "id") /\ contacts[i].id = new.id
                    THEN contacts'[i] = new
                    ELSE contacts'[i] = contacts[i]
              /\ ~Cached(contacts, new.id) => contacts' = contacts]_vars

\* C18 witness: the answer to a note-add has replaced Alice at her place,
\* before Eve, who is as she was loaded
C18_Witness ==
    /\ lastEvent.type = "note"
    /\ Len(contacts) = 2
    /\ contacts[1].name = "Alice"
    /\ Len(contacts[1].notes.items) = 1
    /\ contacts[2] = normalized(SeedTwo.file)[2]

\* C19: once the first load has arrived and no request or answer is under
\* way, the cache holds the records of the file: the same ids, each with the
\* fields and notes the file has for it.
C19_CacheMirrorsStore ==
    (requests = EmptyBag /\ responses = EmptyBag) =>
        /\ Len(contacts) = Len(file)
        /\ {contacts[i] : i \in 1..Len(contacts)} = {file[i] : i \in 1..Len(file)}

\* C20: when the App is still open after the 60 s in which a cached
\* contact with an id was due, and the contact has been cached since before
\* they began, a tick inside them has shown its reminder.
C20_DueReminderShown ==
    mounted =>
        \A i \in 1..Len(contacts) :
            LET c == contacts[i] IN
            (/\ hasId(c)
             /\ ~remindDateTime(c).nan
             /\ remindDateTime(c).ms >= DueWindowMs
             /\ now > remindDateTime(c).ms) =>
                (c.id \in shownReminders /\ notified[c.id] >= 1)

====
